---- MODULE Spec2Model ----
(***************************************************************************)
(* liberator: a controller that, when a guarded PersistentVolumeClaim is   *)
(* deleted, clears the claimRef of the PersistentVolume it is bound to and *)
(* then removes its own finalizer from the claim (src/main.go).            *)
(*                                                                         *)
(* The model has three layers:                                             *)
(*   - pure helpers of main.go (hasFinalizer, removeFinalizer, the four    *)
(*     predicate functions and their conjunction);                         *)
(*   - Reconcile, cut at its store calls: one action per r.Get / r.Update, *)
(*     each with every outcome the call can have;                          *)
(*   - the collaborators the program runs against (object store, informer  *)
(*     cache, controller host, users and other writers).                   *)
(***************************************************************************)
EXTENDS Integers, Sequences, FiniteSets, TLC

\* ------------------------------------------------------------------ bounds

\* Longest finalizer list a claim starts with.
MaxFinalizers == 2

\* Highest resourceVersion an external writer may still write over.
MaxExternalRV == 1

\* Longest finalizer list of the claims that removeFinalizer is tried on.
MaxTokens == 3

\* --------------------------------------------------------------- constants

\* main.go:25
PVClaimRefCleanupFinalizer == "liberator.io/pv-claim-ref-cleanup"

\* A finalizer owned by somebody else.
OtherFinalizer == "kubernetes.io/pvc-protection"

\* main.go:45, the default of -max-concurrent-reconciles
MaxConcurrentReconciles == 3

\* Another finalizer owned by somebody else.
SnapshotFinalizer == "snapshot.storage.kubernetes.io/pvc-as-source-protection"

FinalizerNames == {PVClaimRefCleanupFinalizer, OtherFinalizer}

\* The finalizers of the claims that removeFinalizer is tried on.
TokenNames == FinalizerNames \cup {SnapshotFinalizer}

\* Identities of claims (namespace + name).
ClaimKeys == { [name |-> "c1", namespace |-> "ns1"],
               [name |-> "c2", namespace |-> "ns2"] }

\* The identity of the claim the store holds when there is only one.
OneClaim == { [name |-> "c1", namespace |-> "ns1"] }

\* The one volume name claims are bound to; "" is the unbound claim.
VolumeNames == {"v1"}

VolumeNameValues == VolumeNames \cup {""}

\* pv.Spec.ClaimRef: nil, or a reference with a name and a namespace.
NilRef == [set |-> FALSE, name |-> "", namespace |-> ""]

ClaimRefs == {NilRef} \cup
             { [set |-> TRUE, name |-> n, namespace |-> ns] :
                    n \in {"c1", "c2"}, ns \in {"ns1", "ns2"} }

RefTo(k) == [set |-> TRUE, name |-> k.name, namespace |-> k.namespace]

\* All finalizer lists of length at most n.
RECURSIVE FinalizerLists(_)
FinalizerLists(n) ==
    IF n = 0 THEN { <<>> }
    ELSE FinalizerLists(n - 1) \cup
         { Append(s, f) : s \in { t \in FinalizerLists(n - 1) : Len(t) = n - 1 },
                          f \in FinalizerNames }

\* All lists of length at most n of the finalizers of names.
RECURSIVE ListsOver(_, _)
ListsOver(names, n) ==
    IF n = 0 THEN { <<>> }
    ELSE ListsOver(names, n - 1) \cup
         { Append(s, f) : s \in { t \in ListsOver(names, n - 1) : Len(t) = n - 1 },
                          f \in names }

\* ------------------------------------------------------------ pure helpers

\* slices.Contains(finalizers, PVClaimRefCleanupFinalizer)
hasFinalizer(finalizers) ==
    \E i \in 1..Len(finalizers) : finalizers[i] = PVClaimRefCleanupFinalizer

\* The loop of removeFinalizer: append every finalizer that is not ours.
RECURSIVE removeFinalizerFrom(_, _)
removeFinalizerFrom(finalizers, result) ==
    IF finalizers = <<>> THEN result
    ELSE removeFinalizerFrom(Tail(finalizers),
            IF Head(finalizers) # PVClaimRefCleanupFinalizer
            THEN Append(result, Head(finalizers))
            ELSE result)

\* removeFinalizer that puts the last finalizer in the place of ours and cuts
\* the list by one.
removeFinalizer_SwapRemove(finalizers) ==
    LET n == Len(finalizers)
        ours == { i \in 1..n : finalizers[i] = PVClaimRefCleanupFinalizer }
    IN  IF ours = {} THEN finalizers
        ELSE LET i == CHOOSE i \in ours : \A j \in ours : i <= j
             IN  SubSeq([finalizers EXCEPT ![i] = finalizers[n]], 1, n - 1)

removeFinalizer(finalizers) == removeFinalizerFrom(finalizers, <<>>)

\* NeedsCleanup without the test of the deletion timestamp.
NeedsCleanup_IgnoreDeletion(obj) == hasFinalizer(obj.finalizers)

\* NeedsCleanup without the test of the finalizer.
NeedsCleanup_IgnoreFinalizer(obj) == obj.deleting

\* !pvc.DeletionTimestamp.IsZero() && hasFinalizer(pvc.Finalizers)
NeedsCleanup(obj) == obj.deleting /\ hasFinalizer(obj.finalizers)

\* ClaimRefMatches that takes any claimRef for a match.
ClaimRefMatches_AnyRef(ref, obj) == ref.set

\* ClaimRefMatches without the comparison of the namespace.
ClaimRefMatches_NameOnly(ref, obj) == ref.set /\ ref.name = obj.name

\* ClaimRefMatches with the namespace compared to the name of the claim.
ClaimRefMatches_NamespaceVsName(ref, obj) ==
    ref.set /\ ref.name = obj.name /\ ref.namespace = obj.name

\* pv.Spec.ClaimRef != nil && ClaimRef.Name == pvc.Name &&
\* ClaimRef.Namespace == pvc.Namespace
ClaimRefMatches(ref, obj) ==
    ref.set /\ ref.name = obj.name /\ ref.namespace = obj.namespace

\* ------------------------------------------------------------ event filter

hasBoundPVPredicate(obj) == obj.volumeName # ""

\* CreateFunc that wants the deletion timestamp too.
CreateFunc_OnlyDeleting(e) == hasFinalizer(e.new.finalizers) /\ e.new.deleting

CreateFunc(e) == hasFinalizer(e.new.finalizers)

\* DeleteFunc that answers like CreateFunc.
DeleteFunc_Guarded(e) == hasFinalizer(e.new.finalizers)

DeleteFunc(e) == FALSE

\* UpdateFunc that takes deletionStarted from the old object too.
UpdateFunc_OnTransition(e) ==
    LET oldObject == hasFinalizer(e.old.finalizers)
        newObject == hasFinalizer(e.new.finalizers)
        deletionStarted == ~e.old.deleting /\ e.new.deleting
    IN  oldObject # newObject \/ deletionStarted

UpdateFunc(e) ==
    LET oldObject == hasFinalizer(e.old.finalizers)
        newObject == hasFinalizer(e.new.finalizers)
        deletionStarted == e.new.deleting
    IN  oldObject # newObject \/ deletionStarted

GenericFunc(e) == hasFinalizer(e.new.finalizers)

\* predicate.Funcs dispatches on the kind of the event.
predicates(e) ==
    CASE e.kind = "create"  -> CreateFunc(e)
      [] e.kind = "delete"  -> DeleteFunc(e)
      [] e.kind = "update"  -> UpdateFunc(e)
      [] e.kind = "generic" -> GenericFunc(e)

\* combined built with predicate.Or in place of predicate.And.
combined_Or(e) == hasBoundPVPredicate(e.new) \/ predicates(e)

\* predicate.NewPredicateFuncs applies its function to the object of a
\* create, delete and generic event and to ObjectNew of an update event.
\* predicate.And admits an event iff every predicate admits it.
combined(e) == hasBoundPVPredicate(e.new) /\ predicates(e)

Event(kind, old, new) == [kind |-> kind, old |-> old, new |-> new]

\* ------------------------------------------------------------------- state

VARIABLES
    claims,        \* object store: the PersistentVolumeClaim of each identity
    volumes,       \* object store: the PersistentVolume of each name
    cacheClaims,   \* informer cache the manager's client reads claims from
    cacheVolumes,  \* informer cache the manager's client reads volumes from
    queue,         \* work queue of the controller: identities, deduplicated
    pc,            \* per identity: the store call its Reconcile is about to make
    pvc,           \* per identity: the claim its Reconcile read
    pv,            \* per identity: the volume its Reconcile read
    log,           \* per identity: the store calls of its current/last Reconcile
    prev,          \* per identity: the store calls of the Reconcile before that
    result,        \* per identity: what its last Reconcile returned
    removed,       \* per identity: a Claim write by the controller took the token off
    event,         \* the event last given to the event filter on its own
    admitted,      \* what the filter answered for it
    start          \* the store as it was when the manager started

\* The identities the store has held a claim of.
Keys == DOMAIN claims

vars == << claims, volumes, cacheClaims, cacheVolumes, queue, pc, pvc, pv,
           log, prev, result, removed, event, admitted, start >>

reconcilerVars == << pc, pvc, pv, log, prev, result >>

Claim(k, finalizers, deleting, volumeName) ==
    [name |-> k.name, namespace |-> k.namespace, exists |-> TRUE,
     finalizers |-> finalizers, deleting |-> deleting,
     volumeName |-> volumeName, rv |-> 0]

\* The zero value of corev1.PersistentVolumeClaim (var pvc, before r.Get).
NoClaim == [name |-> "", namespace |-> "", exists |-> FALSE,
            finalizers |-> <<>>, deleting |-> FALSE, volumeName |-> "", rv |-> 0]

\* The zero value of corev1.PersistentVolume (var pv, before r.Get).
NoVolume == [exists |-> FALSE, claimRef |-> NilRef, rv |-> 0]

Call(op, res) == [op |-> op, res |-> res]

\* A store: its claims and its volumes.
Store(cs, vs) == [claims |-> cs, volumes |-> vs]

\* The store of a run that does not look back at how it started.
NoStore == Store(<<>>, <<>>)

\* The finalizer list fs carries the guard token.
Guarded(fs) == \E i \in DOMAIN fs : fs[i] = "liberator.io/pv-claim-ref-cleanup"

\* ------------------------------------------------- informer and work queue

\* The event the informer raises when the cached object old becomes new.
ChangeEvent(old, new) ==
    IF ~old.exists THEN Event("create", new, new)
    ELSE IF ~new.exists THEN Event("delete", old, old)
    ELSE Event("update", old, new)

\* WithEventFilter(combined): an admitted event enqueues the identity.
Enqueue(q, k, e) == IF combined(e) THEN q \cup {k} ELSE q

\* A change of claim k in the store reaches the cache (and the filter) in the
\* same step when sync holds, and not at all otherwise.
ClaimChanged(k, sync, q) ==
    IF sync
    THEN /\ cacheClaims' = [cacheClaims EXCEPT ![k] = claims'[k]]
         /\ queue' = Enqueue(q, k, ChangeEvent(cacheClaims[k], claims'[k]))
    ELSE /\ cacheClaims' = cacheClaims
         /\ queue' = q

VolumeChanged(v, sync) ==
    cacheVolumes' = IF sync THEN [cacheVolumes EXCEPT ![v] = volumes'[v]]
                    ELSE cacheVolumes

\* The informer catches up on claim k: one event for the change.
CacheSyncClaim(k) ==
    /\ cacheClaims[k] # claims[k]
    /\ cacheClaims' = [cacheClaims EXCEPT ![k] = claims[k]]
    /\ queue' = Enqueue(queue, k, ChangeEvent(cacheClaims[k], claims[k]))
    /\ UNCHANGED << claims, volumes, cacheVolumes, reconcilerVars, removed,
                    event, admitted, start >>

CacheSyncVolume(v) ==
    /\ cacheVolumes[v] # volumes[v]
    /\ cacheVolumes' = [cacheVolumes EXCEPT ![v] = volumes[v]]
    /\ UNCHANGED << claims, volumes, cacheClaims, queue, reconcilerVars,
                    removed, event, admitted, start >>

\* Periodic re-sync: a generic event for the cached claim.
Resync(k) ==
    /\ cacheClaims[k].exists
    /\ k \notin queue
    /\ combined(Event("generic", cacheClaims[k], cacheClaims[k]))
    /\ queue' = queue \cup {k}
    /\ UNCHANGED << claims, volumes, cacheClaims, cacheVolumes, reconcilerVars,
                    removed, event, admitted, start >>

\* The host may deliver a request again (duplicates, stale requests).
Redeliver(k) ==
    /\ k \notin queue
    /\ queue' = queue \cup {k}
    /\ UNCHANGED << claims, volumes, cacheClaims, cacheVolumes, reconcilerVars,
                    removed, event, admitted, start >>

\* ------------------------------------------------------- users and writers

\* A user deletes claim k: the store sets the deletion marker, or removes the
\* object at once when nothing guards it.
UserDelete(k, sync) ==
    /\ claims[k].exists /\ ~claims[k].deleting
    /\ claims' = [claims EXCEPT ![k] =
            IF @.finalizers = <<>> THEN [@ EXCEPT !.exists = FALSE]
            ELSE [@ EXCEPT !.deleting = TRUE, !.rv = @ + 1]]
    /\ ClaimChanged(k, sync, queue)
    /\ UNCHANGED << volumes, cacheVolumes, reconcilerVars, removed, event, admitted, start >>

\* A user puts a finalizer on a live claim (the store refuses new finalizers
\* on a claim that is being deleted).
UserAddFinalizer(k, f, sync) ==
    /\ claims[k].exists /\ ~claims[k].deleting
    /\ Len(claims[k].finalizers) < MaxFinalizers
    /\ claims' = [claims EXCEPT ![k] =
            [@ EXCEPT !.finalizers = Append(@, f), !.rv = @ + 1]]
    /\ ClaimChanged(k, sync, queue)
    /\ UNCHANGED << volumes, cacheVolumes, reconcilerVars, removed, event, admitted, start >>

RECURSIVE without(_, _)
without(finalizers, f) ==
    IF finalizers = <<>> THEN <<>>
    ELSE IF Head(finalizers) = f THEN without(Tail(finalizers), f)
    ELSE <<Head(finalizers)>> \o without(Tail(finalizers), f)

\* The owner of the other finalizer takes it off a claim that is being deleted.
OtherControllerRelease(k, sync) ==
    /\ claims[k].exists /\ claims[k].deleting
    /\ \E i \in 1..Len(claims[k].finalizers) : claims[k].finalizers[i] = OtherFinalizer
    /\ claims' = [claims EXCEPT ![k] =
            [@ EXCEPT !.finalizers = without(@, OtherFinalizer), !.rv = @ + 1]]
    /\ ClaimChanged(k, sync, queue)
    /\ UNCHANGED << volumes, cacheVolumes, reconcilerVars, removed, event, admitted, start >>

\* The store removes a claim that is being deleted once no finalizer is left.
StoreFinalize(k, sync) ==
    /\ claims[k].exists /\ claims[k].deleting /\ claims[k].finalizers = <<>>
    /\ claims' = [claims EXCEPT ![k] = [@ EXCEPT !.exists = FALSE]]
    /\ ClaimChanged(k, sync, queue)
    /\ UNCHANGED << volumes, cacheVolumes, reconcilerVars, removed, event, admitted, start >>

\* Another writer (the volume binder, an administrator) sets or clears the
\* claimRef of volume v.  It binds a volume only to a claim that is alive: never
\* to one of the claims of the store that is being deleted or is gone.
MayBind(ref) ==
    \A k \in Keys :
        ref = RefTo(k) => claims[k].exists /\ ~claims[k].deleting

ExternalSetClaimRef(v, ref, sync) ==
    /\ volumes[v].exists
    /\ volumes[v].rv < MaxExternalRV
    /\ volumes[v].claimRef # ref
    /\ MayBind(ref)
    /\ volumes' = [volumes EXCEPT ![v] = [@ EXCEPT !.claimRef = ref, !.rv = @ + 1]]
    /\ VolumeChanged(v, sync)
    /\ UNCHANGED << claims, cacheClaims, queue, reconcilerVars, removed, event, admitted, start >>

\* An administrator deletes volume v: the object is gone, and its claimRef
\* with it.
ExternalDeleteVolume(v, sync) ==
    /\ volumes[v].exists
    /\ volumes' = [volumes EXCEPT ![v] =
            [@ EXCEPT !.exists = FALSE, !.claimRef = NilRef]]
    /\ VolumeChanged(v, sync)
    /\ UNCHANGED << claims, cacheClaims, queue, reconcilerVars, removed, event, admitted, start >>

\* --------------------------------------------------------------- Reconcile

Running == { k \in Keys : pc[k] # "idle" }

\* The host takes identity k off the queue and calls Reconcile(k).  It never
\* runs two Reconciles of one identity at once, nor more than
\* MaxConcurrentReconciles in all.
StartReconcile(k) ==
    /\ k \in queue
    /\ pc[k] = "idle"
    /\ Cardinality(Running) < MaxConcurrentReconciles
    /\ queue' = queue \ {k}
    /\ pc' = [pc EXCEPT ![k] = "getPVC"]
    /\ pvc' = [pvc EXCEPT ![k] = NoClaim]
    /\ pv' = [pv EXCEPT ![k] = NoVolume]
    /\ prev' = [prev EXCEPT ![k] = log[k]]
    /\ log' = [log EXCEPT ![k] = <<>>]
    /\ result' = [result EXCEPT ![k] = "none"]
    /\ UNCHANGED << claims, volumes, cacheClaims, cacheVolumes, removed,
                    event, admitted, start >>

\* Return that leaves the re-queue out.
Return_DropOnError(k, c, res, q) ==
    /\ pc' = [pc EXCEPT ![k] = "idle"]
    /\ log' = [log EXCEPT ![k] = Append(@, c)]
    /\ result' = [result EXCEPT ![k] = res]
    /\ queue' = q

\* Reconcile(k) returns res to the host after store call c; q is the queue
\* as the step's own store write (if any) has left it.  The host puts the
\* identity back on the queue when Reconcile returns an error.
Return(k, c, res, q) ==
    /\ pc' = [pc EXCEPT ![k] = "idle"]
    /\ log' = [log EXCEPT ![k] = Append(@, c)]
    /\ result' = [result EXCEPT ![k] = res]
    /\ queue' = IF res = "error" THEN q \cup {k} ELSE q

\* Reconcile(k) goes on to its next store call after store call c.
Goto(k, c, next) ==
    /\ pc' = [pc EXCEPT ![k] = next]
    /\ log' = [log EXCEPT ![k] = Append(@, c)]
    /\ UNCHANGED result

\* Where Reconcile goes once r.Get has read claim obj (main.go:113-119 and
\* the test of handlePVCDeletion, main.go:127).
AfterGetPVC(obj) ==
    IF NeedsCleanup(obj)
    THEN IF obj.volumeName # "" THEN "getPV" ELSE "updatePVC"
    ELSE "return"

\* AfterGetPV that never goes to the Volume write.
AfterGetPV_SkipClear(res, vol, obj) ==
    IF res = "error" THEN "returnErr" ELSE "updatePVC"

\* AfterGetPV that clears whatever claimRef it read.
AfterGetPV_AlwaysClear(res, vol, obj) ==
    CASE res = "error"    -> "returnErr"
      [] res = "notfound" -> "updatePVC"
      [] res = "ok"       -> "updatePV"

\* AfterGetPV that goes on to the Claim write when the read fails.
AfterGetPV_IgnoreError(res, vol, obj) ==
    IF res = "ok" /\ ClaimRefMatches(vol.claimRef, obj)
    THEN "updatePV" ELSE "updatePVC"

\* AfterGetPV that returns the error when the volume is not found.
AfterGetPV_NotFoundIsError(res, vol, obj) ==
    CASE res = "ok" -> IF ClaimRefMatches(vol.claimRef, obj)
                       THEN "updatePV" ELSE "updatePVC"
      [] OTHER      -> "returnErr"

\* Where handlePVCDeletion goes after r.Get of the volume answered res
\* (main.go:130-157).
AfterGetPV(res, vol, obj) ==
    CASE res = "error"    -> "returnErr"
      [] res = "notfound" -> "updatePVC"
      [] res = "ok"       -> IF ClaimRefMatches(vol.claimRef, obj)
                             THEN "updatePV" ELSE "updatePVC"

\* AfterUpdatePV that goes on after a conflict.
AfterUpdatePV_IgnoreConflict(res) ==
    IF res \in {"ok", "conflict"} THEN "updatePVC" ELSE "returnErr"

\* AfterUpdatePV without the return on a failed r.Update.
AfterUpdatePV_IgnoreError(res) == "updatePVC"

\* Where handlePVCDeletion goes after r.Update of the volume answered res
\* (main.go:150-155).
AfterUpdatePV(res) == IF res = "ok" THEN "updatePVC" ELSE "returnErr"

\* What r.Update answers for an object read at version rv when the store
\* holds cur.
UpdateAnswer(cur, rv) ==
    IF ~cur.exists THEN "notfound"
    ELSE IF cur.rv # rv THEN "conflict"
    ELSE "ok"

\* r.Get(ctx, req.NamespacedName, &pvc), main.go:106, and what Reconcile does
\* with the answer up to its next store call.
GetPVC(k) ==
    /\ pc[k] = "getPVC"
    /\ UNCHANGED << claims, volumes, cacheClaims, cacheVolumes, pv, prev,
                    removed, event, admitted, start >>
    /\ \/ \* the read fails with an error that is not NotFound
          /\ Return(k, Call("GetPVC", "error"), "error", queue)
          /\ UNCHANGED pvc
       \/ \* NotFound: client.IgnoreNotFound(err) is nil
          /\ ~cacheClaims[k].exists
          /\ Return(k, Call("GetPVC", "notfound"), "success", queue)
          /\ UNCHANGED pvc
       \/ /\ cacheClaims[k].exists
          /\ pvc' = [pvc EXCEPT ![k] = cacheClaims[k]]
          /\ IF AfterGetPVC(cacheClaims[k]) = "return"
             THEN Return(k, Call("GetPVC", "ok"), "success", queue)
             ELSE /\ Goto(k, Call("GetPVC", "ok"), AfterGetPVC(cacheClaims[k]))
                  /\ UNCHANGED queue

\* r.Get(ctx, client.ObjectKey{Name: pvc.Spec.VolumeName}, &pv), main.go:130.
GetPV(k) ==
    /\ pc[k] = "getPV"
    /\ UNCHANGED << claims, volumes, cacheClaims, cacheVolumes, pvc, prev,
                    removed, event, admitted, start >>
    /\ \E res \in {"ok", "notfound", "error"} :
        LET vol == cacheVolumes[pvc[k].volumeName]
            next == AfterGetPV(res, vol, pvc[k])
        IN  /\ res = "ok" => vol.exists
            /\ res = "notfound" => ~vol.exists
            /\ pv' = [pv EXCEPT ![k] = IF res = "ok" THEN vol ELSE @]
            /\ IF next = "returnErr"
               THEN Return(k, Call("GetPV", res), "error", queue)
               ELSE /\ Goto(k, Call("GetPV", res), next)
                    /\ UNCHANGED queue

\* UpdatePV that patches the claimRef of whatever version the store holds, in
\* place of an update of the version it read.
UpdatePV_Patch(k, sync) ==
    /\ pc[k] = "updatePV"
    /\ UNCHANGED << claims, cacheClaims, pvc, pv, prev, removed, event, admitted, start >>
    /\ \E fail \in BOOLEAN :
        LET v == pvc[k].volumeName
            res == IF fail THEN "error"
                   ELSE IF volumes[v].exists THEN "ok" ELSE "notfound"
            next == AfterUpdatePV(res)
        IN  /\ IF res = "ok"
               THEN /\ volumes' = [volumes EXCEPT ![v] =
                            [@ EXCEPT !.claimRef = NilRef, !.rv = @ + 1]]
                    /\ VolumeChanged(v, sync)
               ELSE UNCHANGED << volumes, cacheVolumes >>
            /\ IF next = "returnErr"
               THEN Return(k, Call("UpdatePV", res), "error", queue)
               ELSE /\ Goto(k, Call("UpdatePV", res), next)
                    /\ UNCHANGED queue

\* pvCopy.Spec.ClaimRef = nil; r.Update(ctx, pvCopy), main.go:146-153.
UpdatePV(k, sync) ==
    /\ pc[k] = "updatePV"
    /\ UNCHANGED << claims, cacheClaims, pvc, pv, prev, removed, event, admitted, start >>
    /\ \E fail \in BOOLEAN :
        LET v == pvc[k].volumeName
            pvCopy == [pv[k] EXCEPT !.claimRef = NilRef]
            res == IF fail THEN "error" ELSE UpdateAnswer(volumes[v], pvCopy.rv)
            next == AfterUpdatePV(res)
        IN  /\ IF res = "ok"
               THEN /\ volumes' = [volumes EXCEPT ![v] = [pvCopy EXCEPT !.rv = @ + 1]]
                    /\ VolumeChanged(v, sync)
               ELSE UNCHANGED << volumes, cacheVolumes >>
            /\ IF next = "returnErr"
               THEN Return(k, Call("UpdatePV", res), "error", queue)
               ELSE /\ Goto(k, Call("UpdatePV", res), next)
                    /\ UNCHANGED queue

\* removeFinalizer (the method), main.go:165-180:
\* pvcCopy.Finalizers = removeFinalizer(pvcCopy.Finalizers); r.Update(ctx, pvcCopy).
UpdatePVC(k, sync) ==
    /\ pc[k] = "updatePVC"
    /\ UNCHANGED << volumes, cacheVolumes, pvc, pv, prev, event, admitted, start >>
    /\ \E fail \in BOOLEAN :
        LET pvcCopy == [pvc[k] EXCEPT !.finalizers = removeFinalizer(@)]
            res == IF fail THEN "error" ELSE UpdateAnswer(claims[k], pvcCopy.rv)
        IN  IF res = "ok"
            THEN /\ claims' = [claims EXCEPT ![k] = [pvcCopy EXCEPT !.rv = @ + 1]]
                 /\ removed' = [removed EXCEPT ![k] =
                        @ \/ (Guarded(claims[k].finalizers)
                              /\ ~Guarded(pvcCopy.finalizers))]
                 /\ ClaimChanged(k, sync, queue)
                 /\ pc' = [pc EXCEPT ![k] = "idle"]
                 /\ log' = [log EXCEPT ![k] = Append(@, Call("UpdatePVC", res))]
                 /\ result' = [result EXCEPT ![k] = "success"]
            ELSE /\ UNCHANGED << claims, cacheClaims, removed >>
                 /\ Return(k, Call("UpdatePVC", res), "error", queue)

\* Reconcile(k) run from its first store call to its return with no other
\* writer and no failure, as a function of the store (main.go:100-180).
ReconcileSerial(st, k) ==
    LET obj == st.claims[k]
        v == obj.volumeName
        bound == v # "" /\ st.volumes[v].exists
        clear == bound /\ ClaimRefMatches(st.volumes[v].claimRef, obj)
    IN  IF ~obj.exists \/ ~NeedsCleanup(obj) THEN st
        ELSE Store(
               [st.claims EXCEPT ![k] =
                    [@ EXCEPT !.finalizers = removeFinalizer(@), !.rv = @ + 1]],
               IF clear
               THEN [st.volumes EXCEPT ![v] =
                        [@ EXCEPT !.claimRef = NilRef, !.rv = @ + 1]]
               ELSE st.volumes)

\* ------------------------------------------------------- the filter alone

\* A claim object as an event carries it.
EventObjects ==
    { Claim([name |-> "c1", namespace |-> "ns1"], f, d, v) :
        f \in FinalizerLists(MaxFinalizers), d \in BOOLEAN, v \in VolumeNameValues }

\* The store never takes a deletion marker back and never unbinds a claim.
MayBecome(old, new) ==
    /\ old.deleting => new.deleting
    /\ old.volumeName # "" => new.volumeName = old.volumeName

Events ==
    { Event(kind, o, o) : kind \in {"create", "delete", "generic"}, o \in EventObjects }
    \cup { e \in { Event("update", old, new) : old \in EventObjects, new \in EventObjects } :
                MayBecome(e.old, e.new) }

\* The controller host gives the event to the filter set by WithEventFilter.
ApplyFilter ==
    /\ admitted = "pending"
    /\ admitted' = IF combined(event) THEN "admitted" ELSE "dropped"
    /\ UNCHANGED << claims, volumes, cacheClaims, cacheVolumes, queue,
                    reconcilerVars, removed, event, start >>

\* ------------------------------------------------------------ specifications

InitReconciler(keys) ==
    /\ pc = [k \in keys |-> "idle"]
    /\ pvc = [k \in keys |-> NoClaim]
    /\ pv = [k \in keys |-> NoVolume]
    /\ log = [k \in keys |-> <<>>]
    /\ prev = [k \in keys |-> <<>>]
    /\ result = [k \in keys |-> "none"]
    /\ removed = [k \in keys |-> FALSE]

\* The manager has started: the store holds claims and a volume made by
\* users, the informer has listed them (one create event per claim, through
\* the filter), and no Reconcile has run yet.
InitStore(keys) ==
    /\ \E fin \in [keys -> FinalizerLists(MaxFinalizers)],
          del \in [keys -> BOOLEAN],
          vol \in [keys -> VolumeNameValues] :
          /\ \A k \in keys : del[k] => fin[k] # <<>>
          /\ claims = [k \in keys |-> Claim(k, fin[k], del[k], vol[k])]
    /\ \E ex \in [VolumeNames -> BOOLEAN], ref \in [VolumeNames -> ClaimRefs] :
          /\ \A v \in VolumeNames : ~ex[v] => ref[v] = NilRef
          /\ volumes = [v \in VolumeNames |->
                            [exists |-> ex[v], claimRef |-> ref[v], rv |-> 0]]
    /\ cacheClaims = claims
    /\ cacheVolumes = volumes
    /\ queue = { k \in keys : combined(ChangeEvent(NoClaim, claims[k])) }

Init ==
    /\ InitStore(OneClaim)
    /\ InitReconciler(OneClaim)
    /\ event = Event("generic", NoClaim, NoClaim)
    /\ admitted = "dropped"
    /\ start = NoStore

\* Reads see the store as it is: the informer cache follows every store
\* write in the same step.
Next ==
    \/ \E k \in Keys : StartReconcile(k)
    \/ \E k \in Keys : GetPVC(k)
    \/ \E k \in Keys : GetPV(k)
    \/ \E k \in Keys : UpdatePV(k, TRUE)
    \/ \E k \in Keys : UpdatePVC(k, TRUE)
    \/ \E k \in Keys : Resync(k)
    \/ \E k \in Keys : Redeliver(k)
    \/ \E k \in Keys : UserDelete(k, TRUE)
    \/ \E k \in Keys, f \in FinalizerNames : UserAddFinalizer(k, f, TRUE)
    \/ \E k \in Keys : OtherControllerRelease(k, TRUE)
    \/ \E k \in Keys : StoreFinalize(k, TRUE)
    \/ \E v \in VolumeNames, ref \in ClaimRefs : ExternalSetClaimRef(v, ref, TRUE)
    \/ \E v \in VolumeNames : ExternalDeleteVolume(v, TRUE)

Spec == Init /\ [][Next]_vars

\* The store call Reconcile(k) makes in this step does not fail for a reason
\* of the store or the network (NotFound and Conflict are answers).
Succeeds(k) == pc[k] # "idle" /\ log'[k][Len(log'[k])].res # "error"

\* The host starts a queued request when a worker is free, and a store call
\* that is tried again and again eventually goes through.
Fairness ==
    \A k \in OneClaim :
        /\ WF_vars(StartReconcile(k))
        /\ SF_vars(GetPVC(k) /\ Succeeds(k))
        /\ SF_vars(GetPV(k) /\ Succeeds(k))
        /\ SF_vars(UpdatePV(k, TRUE) /\ Succeeds(k))
        /\ SF_vars(UpdatePVC(k, TRUE) /\ Succeeds(k))

\* The host delivers every notification once and nothing more: no re-sync
\* and no duplicate request comes to the help of a Reconcile that gave up.
NextFair ==
    \/ \E k \in Keys : StartReconcile(k)
    \/ \E k \in Keys : GetPVC(k)
    \/ \E k \in Keys : GetPV(k)
    \/ \E k \in Keys : UpdatePV(k, TRUE)
    \/ \E k \in Keys : UpdatePVC(k, TRUE)
    \/ \E k \in Keys : UserDelete(k, TRUE)
    \/ \E k \in Keys, f \in FinalizerNames : UserAddFinalizer(k, f, TRUE)
    \/ \E k \in Keys : OtherControllerRelease(k, TRUE)
    \/ \E k \in Keys : StoreFinalize(k, TRUE)
    \/ \E v \in VolumeNames, ref \in ClaimRefs : ExternalSetClaimRef(v, ref, TRUE)
    \/ \E v \in VolumeNames : ExternalDeleteVolume(v, TRUE)

SpecFair == Init /\ [][NextFair]_vars /\ Fairness

\* One claim with any finalizer list over three names, and its volume; no
\* other writer of the volume.
InitTokens ==
    /\ \E fin \in ListsOver(TokenNames, MaxTokens), del \in BOOLEAN,
          vol \in VolumeNameValues :
          /\ del => fin # <<>>
          /\ claims = [k \in OneClaim |-> Claim(k, fin, del, vol)]
    /\ \E ref \in {NilRef} \cup { RefTo(k) : k \in OneClaim } :
          volumes = [v \in VolumeNames |->
                        [exists |-> TRUE, claimRef |-> ref, rv |-> 0]]
    /\ cacheClaims = claims
    /\ cacheVolumes = volumes
    /\ queue = { k \in OneClaim : combined(ChangeEvent(NoClaim, claims[k])) }
    /\ InitReconciler(OneClaim)
    /\ event = Event("generic", NoClaim, NoClaim)
    /\ admitted = "dropped"
    /\ start = NoStore

NextTokens ==
    \/ \E k \in Keys : StartReconcile(k)
    \/ \E k \in Keys : GetPVC(k)
    \/ \E k \in Keys : GetPV(k)
    \/ \E k \in Keys : UpdatePV(k, TRUE)
    \/ \E k \in Keys : UpdatePVC(k, TRUE)
    \/ \E k \in Keys : Redeliver(k)
    \/ \E k \in Keys : UserDelete(k, TRUE)
    \/ \E k \in Keys : OtherControllerRelease(k, TRUE)
    \/ \E k \in Keys : StoreFinalize(k, TRUE)

SpecTokens == InitTokens /\ [][NextTokens]_vars

\* Two claims bound to the same volume, and nobody but the controller at
\* work: the Reconciles of the two run side by side.
InitPair ==
    /\ \E fin \in [ClaimKeys -> FinalizerLists(MaxFinalizers)],
          del \in [ClaimKeys -> BOOLEAN],
          v \in VolumeNames :
          /\ \A k \in ClaimKeys : del[k] => fin[k] # <<>>
          /\ claims = [k \in ClaimKeys |-> Claim(k, fin[k], del[k], v)]
    /\ \E ex \in [VolumeNames -> BOOLEAN], ref \in [VolumeNames -> ClaimRefs] :
          /\ \A v \in VolumeNames : ~ex[v] => ref[v] = NilRef
          /\ volumes = [v \in VolumeNames |->
                            [exists |-> ex[v], claimRef |-> ref[v], rv |-> 0]]
    /\ cacheClaims = claims
    /\ cacheVolumes = volumes
    /\ queue = { k \in ClaimKeys : combined(ChangeEvent(NoClaim, claims[k])) }
    /\ InitReconciler(ClaimKeys)
    /\ event = Event("generic", NoClaim, NoClaim)
    /\ admitted = "dropped"
    /\ start = Store(claims, volumes)

NextPair ==
    \/ \E k \in Keys : StartReconcile(k)
    \/ \E k \in Keys : GetPVC(k)
    \/ \E k \in Keys : GetPV(k)
    \/ \E k \in Keys : UpdatePV(k, TRUE)
    \/ \E k \in Keys : UpdatePVC(k, TRUE)

SpecPair == InitPair /\ [][NextPair]_vars

\* Reads see the informer cache, which follows the store with a delay.
NextStale ==
    \/ \E k \in Keys : StartReconcile(k)
    \/ \E k \in Keys : GetPVC(k)
    \/ \E k \in Keys : GetPV(k)
    \/ \E k \in Keys : UpdatePV(k, FALSE)
    \/ \E k \in Keys : UpdatePVC(k, FALSE)
    \/ \E k \in Keys : Resync(k)
    \/ \E k \in Keys : Redeliver(k)
    \/ \E k \in Keys : UserDelete(k, FALSE)
    \/ \E k \in Keys, f \in FinalizerNames : UserAddFinalizer(k, f, FALSE)
    \/ \E k \in Keys : OtherControllerRelease(k, FALSE)
    \/ \E k \in Keys : StoreFinalize(k, FALSE)
    \/ \E v \in VolumeNames, ref \in ClaimRefs : ExternalSetClaimRef(v, ref, FALSE)
    \/ \E v \in VolumeNames : ExternalDeleteVolume(v, FALSE)
    \/ \E k \in Keys : CacheSyncClaim(k)
    \/ \E v \in VolumeNames : CacheSyncVolume(v)

SpecStale == Init /\ [][NextStale]_vars

\* The event filter on its own, over every event within the bounds.
InitFilter ==
    /\ claims = [k \in OneClaim |-> Claim(k, <<>>, FALSE, "")]
    /\ volumes = [v \in VolumeNames |-> NoVolume]
    /\ cacheClaims = claims
    /\ cacheVolumes = volumes
    /\ queue = {}
    /\ InitReconciler(OneClaim)
    /\ event \in Events
    /\ admitted = "pending"
    /\ start = NoStore

NextFilter == ApplyFilter

SpecFilter == InitFilter /\ [][NextFilter]_vars

\* ------------------------------------------------------------------ claims

\* The reference ref names claim obj.
RefersTo(ref, obj) == ref.set /\ ref.name = obj.name /\ ref.namespace = obj.namespace

\* The store calls of l, in order, and whether every one of them answered ok.
Ops(l) == [i \in DOMAIN l |-> l[i].op]

AllOk(l) == \A i \in DOMAIN l : l[i].res = "ok"

\* Before call i of its invocation, Reconcile(k) has committed the clear of the
\* volume's claimRef, or has found that there is nothing to clear.
VolumeSettled(k, i) ==
    \/ \E j \in 1..(i - 1) : log[k][j] = Call("UpdatePV", "ok")
    \/ pvc[k].exists /\ pvc[k].volumeName = ""
    \/ \E j \in 1..(i - 1) : log[k][j] = Call("GetPV", "notfound")
    \/ /\ \E j \in 1..(i - 1) : log[k][j] = Call("GetPV", "ok")
       /\ ~RefersTo(pv[k].claimRef, pvc[k])

\* C1: within one Reconcile, the Claim write that removes the guard token is
\* issued (and is about to be issued) only after the clear of the volume's
\* claimRef was committed in that invocation, or was found unnecessary: the
\* claim is unbound, the volume is not found, or its claimRef does not match.
C1_ClearBeforeTokenRemoval ==
    \A k \in Keys :
        /\ pc[k] = "updatePVC" => VolumeSettled(k, Len(log[k]) + 1)
        /\ \A i \in DOMAIN log[k] :
              log[k][i].op = "UpdatePVC" => VolumeSettled(k, i)

\* A Claim write was issued after the volume's claimRef was cleared by the
\* same invocation.
C1_Witness ==
    \E k \in Keys :
        /\ Len(log[k]) = 4
        /\ log[k][3] = Call("UpdatePV", "ok")
        /\ log[k][4].op = "UpdatePVC"

\* C2: with failures injected at any store call and Reconcile run again from
\* its first step, in every state: if the controller has removed the guard
\* token of a claim, the claimRef of the volume the claim is bound to does not
\* match the claim.
C2_NoDanglingClaimRef ==
    \A k \in Keys :
        removed[k] /\ claims[k].volumeName # ""
            => ~RefersTo(volumes[claims[k].volumeName].claimRef, claims[k])

\* A Reconcile failed between its Volume write and its Claim write, and the
\* next Reconcile of the claim removed the token.
C2_Witness ==
    \E k \in Keys :
        /\ removed[k]
        /\ Len(prev[k]) = 4
        /\ prev[k][3] = Call("UpdatePV", "ok")
        /\ prev[k][4] = Call("UpdatePVC", "error")
        /\ log[k] = << Call("GetPVC", "ok"), Call("GetPV", "ok"), Call("UpdatePVC", "ok") >>

\* C3 (as claimed): when reads may return an earlier committed version, no
\* step takes the guard token off a claim while the stored claimRef of the
\* volume it is bound to matches the claim.
C3_NoRemovalWhileReferenced ==
    [][ \A k \in Keys :
            ( /\ Guarded(claims[k].finalizers)
              /\ ~Guarded(claims'[k].finalizers)
              /\ claims[k].volumeName # "" )
            => ~RefersTo(volumes[claims[k].volumeName].claimRef, claims[k]) ]_vars

\* The filter has answered for an event of kind kind.
Answered(kind) == admitted # "pending" /\ event.kind = kind

\* C4 (as claimed): an update of a bound claim is admitted iff the presence of
\* the guard token differs between old and new, or the deletion marker is
\* unset in old and set in new.
C4_UpdateAdmittedOnTransition ==
    Answered("update") /\ event.new.volumeName # ""
        => ( admitted = "admitted"
               <=> \/ Guarded(event.old.finalizers) # Guarded(event.new.finalizers)
                   \/ ~event.old.deleting /\ event.new.deleting )

\* C4 (amended): an update of a bound claim is admitted iff the presence of
\* the guard token differs between old and new, or the deletion marker is set
\* in new, whether or not it was set in old.
C4_UpdateAdmittedWhileDeleting ==
    Answered("update") /\ event.new.volumeName # ""
        => ( admitted = "admitted"
               <=> \/ Guarded(event.old.finalizers) # Guarded(event.new.finalizers)
                   \/ event.new.deleting )

\* An update with the deletion marker set in old and new and the token
\* present in both was admitted.
C4_Witness ==
    /\ Answered("update")
    /\ event.new.volumeName # ""
    /\ event.old.deleting /\ event.new.deleting
    /\ Guarded(event.old.finalizers) /\ Guarded(event.new.finalizers)
    /\ admitted = "admitted"

\* C5: whatever the kind of the event, the guard token and the deletion
\* marker, an event whose object has no bound volume is not admitted.
C5_UnboundNeverAdmitted ==
    admitted # "pending" /\ event.new.volumeName = "" => admitted = "dropped"

\* The update that sets the deletion marker of a guarded, unbound claim was
\* dropped.
C5_Witness ==
    /\ Answered("update")
    /\ event.new.volumeName = ""
    /\ ~event.old.deleting /\ event.new.deleting
    /\ Guarded(event.new.finalizers)
    /\ admitted = "dropped"

\* C6: a create event and a generic event are admitted iff the claim is bound
\* to a volume and carries the guard token, whatever its deletion marker.
C6_CreateAndGenericAdmitGuardedBound ==
    Answered("create") \/ Answered("generic")
        => ( admitted = "admitted"
               <=> event.new.volumeName # "" /\ Guarded(event.new.finalizers) )

\* The create event of a guarded, bound claim with no deletion marker was
\* admitted.
C6_Witness ==
    /\ Answered("create")
    /\ event.new.volumeName # ""
    /\ Guarded(event.new.finalizers)
    /\ ~event.new.deleting
    /\ admitted = "admitted"

\* C7: a delete event is never admitted, whatever the finalizers, the
\* deletion marker and the bound volume of the deleted claim.
C7_DeleteNeverAdmitted ==
    Answered("delete") => admitted = "dropped"

\* The delete event of a guarded, bound claim that was being deleted was
\* dropped.
C7_Witness ==
    /\ Answered("delete")
    /\ event.new.volumeName # ""
    /\ Guarded(event.new.finalizers)
    /\ event.new.deleting
    /\ admitted = "dropped"

\* Reconcile(k) makes a store call in this step.
ReconcileStep(k) == pc[k] # "idle" /\ pc'[k] # pc[k]

\* C8: the Reconcile that reads a claim whose deletion marker is unset, or
\* whose guard token is absent, returns success in that step and writes
\* nothing: the claim and every volume are as they were.
C8_NoOpUnlessDeletingAndGuarded ==
    [][ \A k \in Keys :
            ( /\ ReconcileStep(k)
              /\ pc[k] = "getPVC"
              /\ pvc'[k].exists
              /\ ~(pvc'[k].deleting /\ Guarded(pvc'[k].finalizers)) )
            => /\ pc'[k] = "idle"
               /\ result'[k] = "success"
               /\ log'[k] = << Call("GetPVC", "ok") >>
               /\ claims' = claims
               /\ volumes' = volumes ]_vars

\* Reconcile returned success without a write for a guarded claim with no
\* deletion marker, bound to a volume whose claimRef matches it.
C8_Witness ==
    \E k \in Keys :
        /\ pc[k] = "idle"
        /\ result[k] = "success"
        /\ log[k] = << Call("GetPVC", "ok") >>
        /\ Guarded(pvc[k].finalizers) /\ ~pvc[k].deleting
        /\ claims[k] = pvc[k]
        /\ claims[k].volumeName # ""
        /\ RefersTo(volumes[claims[k].volumeName].claimRef, claims[k])

\* C9: once the controller has taken the guard token off a claim, every later
\* Reconcile of the claim ends at its first store call, writes neither the
\* volume nor the claim (the store is as it was) and returns success, unless
\* the read of the claim itself fails.
C9_IdempotentOnceCleaned ==
    [][ \A k \in Keys :
            removed[k] /\ ReconcileStep(k)
            => /\ pc[k] = "getPVC"
               /\ pc'[k] = "idle"
               /\ claims' = claims
               /\ volumes' = volumes
               /\ log'[k] \in { << Call("GetPVC", "ok") >>,
                                << Call("GetPVC", "notfound") >>,
                                << Call("GetPVC", "error") >> }
               /\ log'[k] # << Call("GetPVC", "error") >> => result'[k] = "success" ]_vars

\* Two Reconciles in a row of a cleaned claim that is still in the store both
\* returned success without a write.
C9_Witness ==
    \E k \in Keys :
        /\ removed[k]
        /\ claims[k].exists
        /\ pc[k] = "idle"
        /\ prev[k] = << Call("GetPVC", "ok") >>
        /\ log[k] = << Call("GetPVC", "ok") >>
        /\ result[k] = "success"

\* C10: a Reconcile whose store calls all succeed, which read a claim with
\* the guard token, the deletion marker and a bound volume, and read that
\* volume with a claimRef matching the claim, has made exactly two writes, the
\* Volume write and then the Claim write, and returns success; when it
\* returns, the claim is without the guard token and the volume version it
\* wrote, if still the stored one, is without claimRef.
C10_MatchingClaimRefTwoWrites ==
    [][ \A k \in Keys :
            ( /\ ReconcileStep(k)
              /\ pc'[k] = "idle"
              /\ AllOk(log'[k])
              /\ pvc'[k].exists
              /\ pvc'[k].deleting /\ Guarded(pvc'[k].finalizers)
              /\ pvc'[k].volumeName # ""
              /\ pv'[k].exists
              /\ RefersTo(pv'[k].claimRef, pvc'[k]) )
            => /\ Ops(log'[k]) = << "GetPVC", "GetPV", "UpdatePV", "UpdatePVC" >>
               /\ result'[k] = "success"
               /\ ~Guarded(claims'[k].finalizers)
               /\ LET vol == volumes'[pvc'[k].volumeName]
                  IN  vol.exists /\ vol.rv = pv'[k].rv + 1 => vol.claimRef = NilRef ]_vars

\* Reconcile cleared the matching claimRef, then removed the token, and
\* returned success; the store shows both.
C10_Witness ==
    \E k \in Keys :
        /\ pc[k] = "idle"
        /\ result[k] = "success"
        /\ log[k] = << Call("GetPVC", "ok"), Call("GetPV", "ok"),
                       Call("UpdatePV", "ok"), Call("UpdatePVC", "ok") >>
        /\ RefersTo(pv[k].claimRef, pvc[k])
        /\ ~Guarded(claims[k].finalizers)
        /\ volumes[pvc[k].volumeName].exists
        /\ volumes[pvc[k].volumeName].claimRef = NilRef
        /\ volumes[pvc[k].volumeName].rv = pv[k].rv + 1

\* The volume was read by the last Reconcile of k and its claimRef is absent
\* or differs from the claim read in name or in namespace.
ReadOtherRef(k, l) ==
    /\ Len(l) >= 2
    /\ l[2] = Call("GetPV", "ok")
    /\ ~RefersTo(pv'[k].claimRef, pvc'[k])

\* C11: a step of Reconcile changes a volume only by clearing the claimRef of
\* the volume the claim is bound to, and only when the claimRef it read (and
\* the stored one) names the claim in name and namespace.  A Reconcile that
\* read a claimRef that is absent or differs in name or namespace makes one
\* store write, the Claim write, leaves every volume as it was at each of its
\* steps, and removes the guard token when that write succeeds.
C11_OnlyMatchingClaimRefCleared ==
    [][ \A k \in Keys :
            ReconcileStep(k) =>
              /\ volumes' # volumes =>
                    /\ pc[k] = "updatePV"
                    /\ RefersTo(pv[k].claimRef, pvc[k])
                    /\ RefersTo(volumes[pvc[k].volumeName].claimRef, claims[k])
                    /\ volumes' = [volumes EXCEPT ![pvc[k].volumeName] =
                            [@ EXCEPT !.claimRef = NilRef, !.rv = @ + 1]]
              /\ ReadOtherRef(k, log'[k]) =>
                    /\ volumes' = volumes
                    /\ pc'[k] \in {"updatePVC", "idle"}
                    /\ pc'[k] = "idle" =>
                          /\ Ops(log'[k]) = << "GetPVC", "GetPV", "UpdatePVC" >>
                          /\ AllOk(log'[k]) =>
                                /\ result'[k] = "success"
                                /\ ~Guarded(claims'[k].finalizers) ]_vars

\* Reconcile read a claimRef with the name of the claim and another namespace,
\* wrote the claim only, and the volume still carries that claimRef.
C11_Witness ==
    \E k \in Keys :
        /\ pc[k] = "idle"
        /\ result[k] = "success"
        /\ log[k] = << Call("GetPVC", "ok"), Call("GetPV", "ok"), Call("UpdatePVC", "ok") >>
        /\ pv[k].claimRef.set
        /\ pv[k].claimRef.name = pvc[k].name
        /\ pv[k].claimRef.namespace # pvc[k].namespace
        /\ volumes[pvc[k].volumeName] = pv[k]
        /\ ~Guarded(claims[k].finalizers)

\* C12: NotFound is nothing-to-do at both reads.  A Reconcile whose read of
\* the claim answers NotFound returns success at that step, with no other
\* read and no write.  A Reconcile of a deleting, guarded claim whose read of
\* the volume answers NotFound goes on to the Claim write, attempts no Volume
\* write and changes no volume, and when the Claim write succeeds the token is
\* off and it returns success.
C12_NotFoundIsNothingToDo ==
    [][ \A k \in Keys :
            ReconcileStep(k) =>
              /\ log'[k][1] = Call("GetPVC", "notfound") =>
                    /\ log'[k] = << Call("GetPVC", "notfound") >>
                    /\ pc'[k] = "idle"
                    /\ result'[k] = "success"
                    /\ claims' = claims /\ volumes' = volumes
              /\ ( Len(log'[k]) >= 2 /\ log'[k][2] = Call("GetPV", "notfound") ) =>
                    /\ pvc'[k].deleting /\ Guarded(pvc'[k].finalizers)
                    /\ volumes' = volumes
                    /\ pc'[k] \in {"updatePVC", "idle"}
                    /\ pc'[k] = "idle" =>
                          /\ Ops(log'[k]) = << "GetPVC", "GetPV", "UpdatePVC" >>
                          /\ log'[k][3].res = "ok" =>
                                /\ result'[k] = "success"
                                /\ ~Guarded(claims'[k].finalizers) ]_vars

\* Reconcile found no volume and removed the token of the deleting claim; the
\* store then removed the claim, and the next Reconcile found no claim and
\* returned success.
C12_Witness ==
    \E k \in Keys :
        /\ prev[k] = << Call("GetPVC", "ok"), Call("GetPV", "notfound"),
                        Call("UpdatePVC", "ok") >>
        /\ log[k] = << Call("GetPVC", "notfound") >>
        /\ pc[k] = "idle"
        /\ result[k] = "success"
        /\ removed[k]

C14_VolumeWriteRejectedIsRetryable ==
    [][ \A k \in Keys :
            ( /\ ReconcileStep(k)
              /\ Len(log'[k]) >= 3
              /\ log'[k][3].op = "UpdatePV"
              /\ log'[k][3].res # "ok" )
            => /\ Ops(log'[k]) = << "GetPVC", "GetPV", "UpdatePV" >>
               /\ pc'[k] = "idle"
               /\ result'[k] = "error"
               /\ k \in queue'
               /\ volumes' = volumes
               /\ claims' = claims
               /\ removed'[k] = removed[k] ]_vars

\* The Volume write met a conflict; Reconcile returned an error, the claim is
\* still guarded and the identity is queued again.
C14_Witness ==
    \E k \in Keys :
        /\ log[k] = << Call("GetPVC", "ok"), Call("GetPV", "ok"),
                       Call("UpdatePV", "conflict") >>
        /\ pc[k] = "idle"
        /\ result[k] = "error"
        /\ k \in queue
        /\ claims[k].exists /\ Guarded(claims[k].finalizers)
        /\ ~removed[k]

\* The store calls of a Reconcile that cleared the claimRef and then met a
\* conflict at its Claim write.
ClearedThenConflict ==
    << Call("GetPVC", "ok"), Call("GetPV", "ok"),
       Call("UpdatePV", "ok"), Call("UpdatePVC", "conflict") >>

\* C15: a Reconcile whose Claim write meets a conflict returns a retryable
\* failure (the identity is back on the queue) and the token is still on the
\* claim.  The Reconcile that follows one that cleared the claimRef and then
\* met that conflict reads the claim and the volume again, reads a claimRef
\* that does not match, makes no Volume write at any step, and when its Claim
\* write succeeds it has made exactly that one write and returns success with
\* the token off and the volume's claimRef not matching the claim.
C15_RetryAfterClaimConflict ==
    [][ \A k \in Keys :
            ReconcileStep(k) =>
              /\ log'[k][Len(log'[k])] = Call("UpdatePVC", "conflict") =>
                    /\ pc'[k] = "idle"
                    /\ result'[k] = "error"
                    /\ k \in queue'
                    /\ claims' = claims
                    /\ Guarded(claims'[k].finalizers)
              /\ prev[k] = ClearedThenConflict =>
                    /\ volumes' = volumes
                    /\ pc'[k] # "updatePV"
                    /\ \A i \in DOMAIN log'[k] : log'[k][i].op # "UpdatePV"
                    /\ ( Len(log'[k]) >= 2 /\ log'[k][2] = Call("GetPV", "ok") )
                          => ~RefersTo(pv'[k].claimRef, pvc'[k])
                    /\ log'[k][Len(log'[k])] = Call("UpdatePVC", "ok") =>
                          /\ Ops(log'[k]) = << "GetPVC", "GetPV", "UpdatePVC" >>
                          /\ pc'[k] = "idle"
                          /\ result'[k] = "success"
                          /\ ~Guarded(claims'[k].finalizers)
                          /\ ~RefersTo(volumes'[pvc'[k].volumeName].claimRef,
                                       claims'[k]) ]_vars

\* After a clear and a conflict at the Claim write, the next Reconcile read the
\* cleared volume, wrote the claim only, and left the store as a run without
\* failure does: claimRef cleared, token off.
C15_Witness ==
    \E k \in Keys :
        /\ prev[k] = ClearedThenConflict
        /\ log[k] = << Call("GetPVC", "ok"), Call("GetPV", "ok"), Call("UpdatePVC", "ok") >>
        /\ pc[k] = "idle"
        /\ result[k] = "success"
        /\ pv[k].exists /\ pv[k].claimRef = NilRef
        /\ volumes[pvc[k].volumeName] = pv[k]
        /\ ~Guarded(claims[k].finalizers)

\* C16: with a host that starts every queued request and puts every failed
\* one back on the queue, and store calls that eventually go through, every
\* bound claim that carries the guard token and the deletion marker
\* eventually is without the token, with the claimRef of its volume not
\* matching it.
C16_EventuallyCleaned ==
    \A k \in OneClaim :
        ( /\ claims[k].exists
          /\ claims[k].deleting /\ Guarded(claims[k].finalizers)
          /\ claims[k].volumeName # "" )
        ~> ( /\ ~Guarded(claims[k].finalizers)
             /\ claims[k].volumeName # ""
             /\ ~RefersTo(volumes[claims[k].volumeName].claimRef, claims[k]) )

\* After a Reconcile that failed, a later one cleared the claimRef and removed
\* the token.
C16_Witness ==
    \E k \in Keys :
        /\ prev[k] # <<>>
        /\ prev[k][Len(prev[k])].res = "error"
        /\ log[k] = << Call("GetPVC", "ok"), Call("GetPV", "ok"),
                       Call("UpdatePV", "ok"), Call("UpdatePVC", "ok") >>
        /\ removed[k]
        /\ ~Guarded(claims[k].finalizers)
        /\ claims[k].volumeName # ""
        /\ ~RefersTo(volumes[claims[k].volumeName].claimRef, claims[k])

\* C17 (as claimed): the filter admits the notification of every transition
\* of a claim into "deletion marker set and guard token present" (the update
\* that sets the marker on a guarded claim, the create event of a claim first
\* seen in that state), whether the claim is bound to a volume or not.
C17_EveryGuardedDeletionAdmitted ==
    ( /\ admitted # "pending"
      /\ event.new.deleting /\ Guarded(event.new.finalizers)
      /\ \/ event.kind = "create"
         \/ event.kind = "update" /\ ~event.old.deleting )
    => admitted = "admitted"

\* C18: Reconcile never overwrites a version it has not read.  A step of
\* Reconcile changes a volume or a claim only when the store holds exactly the
\* object that invocation read; when the store holds another version of the
\* volume (claim) at the Volume (Claim) write, the write is rejected, the
\* store keeps the other writer's object, and Reconcile returns a retryable
\* failure.
C18_NoBlindOverwrite ==
    [][ \A k \in Keys :
            ReconcileStep(k) =>
              /\ volumes' # volumes =>
                    /\ pc[k] = "updatePV"
                    /\ volumes[pvc[k].volumeName] = pv[k]
              /\ claims' # claims =>
                    /\ pc[k] = "updatePVC"
                    /\ claims[k] = pvc[k]
              /\ ( pc[k] = "updatePV" /\ volumes[pvc[k].volumeName] # pv[k] ) =>
                    /\ volumes' = volumes /\ claims' = claims
                    /\ log'[k][Len(log'[k])].op = "UpdatePV"
                    /\ log'[k][Len(log'[k])].res \in {"conflict", "notfound", "error"}
                    /\ pc'[k] = "idle" /\ result'[k] = "error" /\ k \in queue'
              /\ ( pc[k] = "updatePVC" /\ claims[k] # pvc[k] ) =>
                    /\ volumes' = volumes /\ claims' = claims
                    /\ log'[k][Len(log'[k])].op = "UpdatePVC"
                    /\ log'[k][Len(log'[k])].res \in {"conflict", "notfound", "error"}
                    /\ pc'[k] = "idle" /\ result'[k] = "error" /\ k \in queue' ]_vars

\* Between the read and the write of the volume another writer set its
\* claimRef to a different claim; the Volume write met a conflict, the store
\* keeps that claimRef, and Reconcile returned an error.
C18_Witness ==
    \E k \in Keys :
        /\ pc[k] = "idle"
        /\ result[k] = "error"
        /\ log[k] # <<>>
        /\ log[k][Len(log[k])] = Call("UpdatePV", "conflict")
        /\ RefersTo(pv[k].claimRef, pvc[k])
        /\ volumes[pvc[k].volumeName].claimRef.set
        /\ ~RefersTo(volumes[pvc[k].volumeName].claimRef, pvc[k])
        /\ volumes[pvc[k].volumeName].rv = pv[k].rv + 1

\* The finalizer f is not the guard token.
NotGuardToken(f) == f # "liberator.io/pv-claim-ref-cleanup"

\* C19: no step of Reconcile puts the guard token on a claim that is without
\* it, and every step of Reconcile that changes a claim changes only the claim
\* it runs for, and only so: the finalizers become the same list without every
\* occurrence of liberator.io/pv-claim-ref-cleanup, the other finalizers kept
\* in their order, and name, namespace, deletion marker and bound volume stay
\* as they were (the store counts the version up by one).
C19_OnlyOwnTokenRemoved ==
    [][ \A k \in Keys :
            ReconcileStep(k) =>
              /\ \A j \in Keys :
                    Guarded(claims'[j].finalizers) => Guarded(claims[j].finalizers)
              /\ claims' # claims =>
                    /\ pc[k] = "updatePVC"
                    /\ claims' = [claims EXCEPT ![k] =
                            [@ EXCEPT !.finalizers = SelectSeq(@, NotGuardToken),
                                      !.rv = @ + 1]] ]_vars

\* A Claim write took the guard token from between two different finalizers
\* of a deleting, bound claim: the two are left, in their order.
C19_Witness ==
    \E k \in Keys :
        /\ pc[k] = "idle"
        /\ log[k] # <<>>
        /\ log[k][Len(log[k])] = Call("UpdatePVC", "ok")
        /\ Len(pvc[k].finalizers) = 3
        /\ pvc[k].finalizers[2] = "liberator.io/pv-claim-ref-cleanup"
        /\ NotGuardToken(pvc[k].finalizers[1])
        /\ NotGuardToken(pvc[k].finalizers[3])
        /\ pvc[k].finalizers[1] # pvc[k].finalizers[3]
        /\ claims[k].finalizers = << pvc[k].finalizers[1], pvc[k].finalizers[3] >>
        /\ claims[k].deleting /\ claims[k].volumeName = pvc[k].volumeName

\* No Reconcile is running and none is queued.
Quiescent == queue = {} /\ \A k \in Keys : pc[k] = "idle"

\* The stores that the Reconciles of all claims, run one after the other in
\* some order from the store st, end in.
SerialOutcomes(st) ==
    { ReconcileSerial(ReconcileSerial(st, o[1]), o[2]) :
        o \in { p \in (DOMAIN st.claims) \X (DOMAIN st.claims) : p[1] # p[2] } }

\* C20: the Reconciles of two claims bound to the same volume interleave at
\* their store calls, with failures and re-runs; whenever none is running or
\* queued any more, the store is one that running them one after the other,
\* in one order or the other, ends in; and no step of the Reconcile of one
\* claim clears a stored claimRef that names the other claim (it clears only a
\* claimRef that names its own).
C20_InterleavingsSerializable ==
    /\ [](Quiescent => Store(claims, volumes) \in SerialOutcomes(start))
    /\ [][ \A k \in Keys :
              ReconcileStep(k) /\ volumes' # volumes =>
                 /\ RefersTo(volumes[pvc[k].volumeName].claimRef, claims[k])
                 /\ \A j \in Keys \ {k} :
                       ~RefersTo(volumes[pvc[k].volumeName].claimRef, claims[j]) ]_vars

\* Two deleting, guarded claims bound to the same volume, whose claimRef named
\* the first.  The Reconcile of the second has read the volume and is about to
\* write its claim; meanwhile the Reconcile of the first has cleared the
\* claimRef and taken its token off.
C20_Witness ==
    \E k \in Keys, j \in Keys :
        /\ k # j
        /\ claims[k].deleting /\ claims[j].deleting
        /\ Guarded(start.claims[k].finalizers) /\ Guarded(claims[j].finalizers)
        /\ RefersTo(start.volumes[claims[k].volumeName].claimRef, claims[k])
        /\ pc[j] = "updatePVC"
        /\ log[j] = << Call("GetPVC", "ok"), Call("GetPV", "ok") >>
        /\ pv[j] = start.volumes[claims[k].volumeName]
        /\ removed[k]
        /\ volumes[claims[k].volumeName].claimRef = NilRef

====
